---- MODULE Spec2Model ----
(***************************************************************************)
(* A model of the weather assistant of src/code.py: the keyword intent     *)
(* classifier, the weather code translator, the geocoding and forecast     *)
(* clients, the weather fetch orchestrator and the query router, run as    *)
(* coroutines of one asyncio event loop.                                   *)
(*                                                                         *)
(* Text is a sequence of atoms.  An atom is one character ("h", " ",       *)
(* "\n"; "deg" stands for the degree sign U+00B0) or one literal chunk of  *)
(* the source that no operation of the program looks into.                 *)
(* A Python value is a record [type, v]; a raised exception is the record  *)
(* Raise(name).                                                            *)
(***************************************************************************)
EXTENDS Integers, Sequences, FiniteSets, TLC

\* Number of queries the serving layer handles on the event loop.
NumQueries == 2
\* Longest question given to the classifier on its own.
MaxLen == 3
\* How far beyond [0, 99] the weather codes given to the translator reach.
CodeSlack == 10

Queries == 1..NumQueries

VARIABLES
    pc,        \* pc[q]: where query q's coroutine stands
    entry,     \* entry[q]: the tool the host invoked, "" before it does
    question,  \* question[q]: process_query_tool's argument
    city,      \* city[q]: <<>> or <<the city>> (extract_city's value, or the tool's argument)
    calls,     \* calls[q]: the requests q has issued, oldest first
    replies,   \* replies[q]: the answers to them, oldest first
    clients,   \* clients[q]: the state of q's two httpx.AsyncClient scopes
    weather,   \* weather[q]: <<>> or <<the value get_weather_data returned>>
    result,    \* result[q]: <<>> or <<the value the tool returned to the host>>
    fault,     \* fault[q]: the exception that left the tool, "" when none
    loop,      \* the query whose coroutine is inside a blocking call, 0 when none
    fn,        \* the pure function exercised on its own, "" when none
    arg,       \* its argument
    ret        \* <<>> or <<its value>>

-----------------------------------------------------------------------------
(* Python values *)

PyStr(s) == [type |-> "str", v |-> s]
PyDict(d) == [type |-> "dict", v |-> d]
None == [type |-> "NoneType", v |-> <<>>]
Raise(exc) == [type |-> "raise", v |-> exc]

\* Python truthiness of None, a dict or a str: `not x` is ~Truthy(x).
Truthy(x) ==
    CASE x.type = "NoneType" -> FALSE
      [] x.type = "dict" -> DOMAIN x.v # {}
      [] x.type = "str" -> x.v # <<>>
      [] OTHER -> TRUE

\* isinstance(x, str)
IsStr(x) == x.type = "str"

-----------------------------------------------------------------------------
(* str.lower, str.strip and the `in` operator on text *)

UpperCase ==
    <<"A","B","C","D","E","F","G","H","I","J","K","L","M","N","O","P","Q","R","S","T","U","V","W","X","Y","Z">>
LowerCase ==
    <<"a","b","c","d","e","f","g","h","i","j","k","l","m","n","o","p","q","r","s","t","u","v","w","x","y","z">>

lower_char(c) ==
    IF \E i \in 1..Len(UpperCase) : UpperCase[i] = c
    THEN LowerCase[CHOOSE i \in 1..Len(UpperCase) : UpperCase[i] = c]
    ELSE c

lower(s) == [i \in 1..Len(s) |-> lower_char(s[i])]

\* Python's `sub in s` for strings.
Contains(s, sub) ==
    \E i \in 0..(Len(s) - Len(sub)) : \A j \in 1..Len(sub) : s[i + j] = sub[j]

Whitespace == {" ", "\n", "\t", "\r"}

RECURSIVE lstrip(_)
lstrip(s) ==
    IF s # <<>> /\ Head(s) \in Whitespace THEN lstrip(Tail(s)) ELSE s

RECURSIVE rstrip(_)
rstrip(s) ==
    IF s # <<>> /\ s[Len(s)] \in Whitespace
    THEN rstrip(SubSeq(s, 1, Len(s) - 1))
    ELSE s

strip(s) == rstrip(lstrip(s))

-----------------------------------------------------------------------------
(* Intent classifier *)

WEATHER_KEYWORDS == {
    <<"w","e","a","t","h","e","r">>,
    <<"t","e","m","p","e","r","a","t","u","r","e">>,
    <<"r","a","i","n">>,
    <<"s","n","o","w">>,
    <<"s","u","n","n","y">>,
    <<"c","l","o","u","d","y">>,
    <<"s","t","o","r","m">>,
    <<"f","o","r","e","c","a","s","t">>,
    <<"h","u","m","i","d","i","t","y">>,
    <<"w","i","n","d">>,
    <<"p","r","e","c","i","p","i","t","a","t","i","o","n">>,
    <<"d","r","i","z","z","l","e">>,
    <<"f","o","g">>,
    <<"t","h","u","n","d","e","r">>,
    <<"h","a","i","l">>,
    <<"b","r","e","e","z","e">>,
    <<"c","h","i","l","l","y">>,
    <<"w","a","r","m">>,
    <<"c","o","l","d">>,
    <<"h","o","t">>,
    <<"d","e","g","r","e","e","s">>,
    <<"c","e","l","s","i","u","s">>,
    <<"f","a","h","r","e","n","h","e","i","t">>,
    <<"deg","C">>,
    <<"deg","F">> }

needs_weather_data(q_text) ==
    LET question_lower == lower(q_text)
    IN  \E keyword \in WEATHER_KEYWORDS : Contains(question_lower, keyword)

-----------------------------------------------------------------------------
(* Weather code translator *)

weather_codes ==
    (0 :> "Clear sky") @@ (1 :> "Mainly clear") @@ (2 :> "Partly cloudy") @@
    (3 :> "Overcast") @@ (45 :> "Foggy") @@ (48 :> "Depositing rime fog") @@
    (51 :> "Light drizzle") @@ (53 :> "Moderate drizzle") @@
    (55 :> "Dense drizzle") @@ (61 :> "Slight rain") @@
    (63 :> "Moderate rain") @@ (65 :> "Heavy rain") @@ (71 :> "Slight snow") @@
    (73 :> "Moderate snow") @@ (75 :> "Heavy snow") @@ (77 :> "Snow grains") @@
    (80 :> "Slight rain showers") @@ (81 :> "Moderate rain showers") @@
    (82 :> "Violent rain showers") @@ (85 :> "Slight snow showers") @@
    (86 :> "Heavy snow showers") @@ (95 :> "Thunderstorm") @@
    (96 :> "Thunderstorm with slight hail") @@
    (99 :> "Thunderstorm with heavy hail")

\* dict.get(code) with no default: None for a code that is no key.
get_weather_description_no_default(code) ==
    IF code \in DOMAIN weather_codes THEN PyStr(<<weather_codes[code]>>) ELSE None

get_weather_description(code) ==
    IF code \in DOMAIN weather_codes
    THEN PyStr(<<weather_codes[code]>>)
    ELSE PyStr(<<"Unknown">>)

-----------------------------------------------------------------------------
(* What the outside world can answer.  The language model, the geocoding   *)
(* service and the forecast service are inputs: every action that takes a  *)
(* reply draws it from one of these sets.                                   *)

\* Questions given to the router: no keyword; the keyword "hot" in another
\* letter case; degrees Celsius written with the degree sign.
RouterQuestions == {
    <<"H","i","?">>,
    <<"H","o","t","?">>,
    <<"2","0","deg","C">> }

\* Cities given to the get-weather tool directly.
ToolCities == { <<"Paris">>, <<"Atlantis">> }

\* ollama.chat returns a response, or raises (ok = FALSE).
ChatFailure == [ok |-> FALSE, content |-> <<>>]
AnswerReplies == {
    [ok |-> TRUE, content |-> <<"It is Paris.">>],
    [ok |-> TRUE, content |-> <<" ", "It is Paris.", "\n">>],
    ChatFailure }
ExtractReplies == {
    [ok |-> TRUE, content |-> <<"NONE">>],
    [ok |-> TRUE, content |-> <<" ", "NONE", "\n">>],
    [ok |-> TRUE, content |-> <<"none">>],
    [ok |-> TRUE, content |-> <<" ", "Paris">>],
    ChatFailure }

\* What the extractor's model may write where a city name is expected: the
\* sentinel, bare and wrapped in whitespace; the sentinel in lower case,
\* followed by a full stop, in quotes; a sentence; nothing; whitespace
\* only; a city wrapped in whitespace.
ExtractorOutputs == {
    <<"NONE">>,
    <<" ", "NONE", "\n">>,
    <<"\t", "NONE", " ", " ">>,
    <<"none">>,
    <<"NONE", ".">>,
    <<"'", "NONE", "'">>,
    <<"The city is ", "Paris", ".">>,
    <<>>,
    <<" ", "\n">>,
    <<" ", "Paris", "\n">> }
WideExtractReplies == { [ok |-> TRUE, content |-> out] : out \in ExtractorOutputs }

\* The questions that take the weather path.
WeatherQuestions == { q_text \in RouterQuestions : needs_weather_data(q_text) }

\* A reply to client.get: the request raises (transport), or a response
\* comes back with a status and a JSON body.
\* The JSON object {}.
EmptyObject == [k \in {} |-> 0]
ParisGeo == [name |-> "Paris", latitude |-> 49, longitude |-> 2, country |-> "France"]
GeoReplies == {
    [kind |-> "transport_error", message |-> <<"All connection attempts failed">>],
    [kind |-> "http_error", message |-> <<"Server error '500 Internal Server Error'">>],
    [kind |-> "ok", json |-> [generationtime_ms |-> 1]],
    [kind |-> "ok", json |-> [results |-> <<>>]],
    [kind |-> "ok", json |-> [results |-> <<ParisGeo>>]],
    [kind |-> "ok", json |-> [results |-> <<[name |-> "Paris"]>>]],
    [kind |-> "ok", json |-> [results |-> <<EmptyObject>>]] }

SnapshotA == [
    current |-> [temperature_2m |-> 18, relative_humidity_2m |-> 60,
                 weather_code |-> 61, wind_speed_10m |-> 12],
    daily |-> [temperature_2m_max |-> <<21, 23>>, temperature_2m_min |-> <<11, 9>>,
               precipitation_probability_max |-> <<40, 0>>,
               weather_code |-> <<4, 0>>] ]
SnapshotNoDaily == [current |-> SnapshotA.current]
ForecastReplies == {
    [kind |-> "transport_error", message |-> <<"All connection attempts failed">>],
    [kind |-> "http_error", message |-> <<"Server error '500 Internal Server Error'">>],
    [kind |-> "ok", json |-> SnapshotA],
    [kind |-> "ok", json |-> SnapshotNoDaily] }

\* One answer of each kind that lets a weather query go on to its end.
FewGeoReplies == {
    [kind |-> "ok", json |-> [results |-> <<>>]],
    [kind |-> "ok", json |-> [results |-> <<ParisGeo>>]] }
FewForecastReplies == { [kind |-> "ok", json |-> SnapshotA] }
FewAnswerReplies == { [ok |-> TRUE, content |-> <<"It is Paris.">>] }

\* client.get returns, response.raise_for_status() and response.json() go
\* through.
Succeeded(resp) == resp.kind = "ok"

-----------------------------------------------------------------------------
(* Requests *)

ChatCall(messages) ==
    [svc |-> "llm", model |-> "llama3.2:3b", messages |-> messages]

GenericSystem == <<"You are a helpful assistant that can answer various questions.">>
ExtractorSystem == <<"You are a city name extractor. Respond with ONLY the city name or \"NONE\".">>
WeatherSystem == <<"You are a helpful weather assistant that provides accurate weather information based on real data.">>

DirectMessages(q_text) ==
    << [role |-> "system", content |-> GenericSystem],
       [role |-> "user", content |-> q_text] >>

ExtractMessages(q_text) ==
    << [role |-> "system", content |-> ExtractorSystem],
       [role |-> "user", content |->
            <<"Extract the city name from this question. If no city is mentioned, respond with 'NONE'.",
              "\n", "            Question: ">>
            \o q_text
            \o <<"\n", "\n", "            Respond with ONLY the city name or 'NONE'.">>] >>

\* The geocoding request numbered by a counter all queries share.
GeocodeCall_counted(c) ==
    [svc |-> "geocode", url |-> "https://geocoding-api.open-meteo.com/v1/search",
     params |-> [name |-> c, count |-> Cardinality({q \in Queries : pc[q] # "idle"}),
                 language |-> "en", format |-> "json"]]

GeocodeCall(c) ==
    [svc |-> "geocode", url |-> "https://geocoding-api.open-meteo.com/v1/search",
     params |-> [name |-> c, count |-> 1, language |-> "en", format |-> "json"]]

ForecastCall(city_data) ==
    [svc |-> "forecast", url |-> "https://api.open-meteo.com/v1/forecast",
     params |-> [latitude |-> city_data.latitude,
                 longitude |-> city_data.longitude,
                 current |-> "temperature_2m,relative_humidity_2m,weather_code,wind_speed_10m",
                 daily |-> "temperature_2m_max,temperature_2m_min,precipitation_probability_max,weather_code",
                 timezone |-> "auto"]]

-----------------------------------------------------------------------------
(* Geocoding client and weather fetch orchestrator *)

\* get_city_coordinates without its except clause: the exception leaves it.
get_city_coordinates_uncaught(resp) ==
    IF ~Succeeded(resp) THEN Raise("HTTPError")
    ELSE IF "results" \in DOMAIN resp.json /\ resp.json.results # <<>>
         THEN PyDict(resp.json.results[1])
         ELSE None

\* The body of get_city_coordinates once client.get has been answered:
\* every exception is caught and gives None.
get_city_coordinates(resp) ==
    IF ~Succeeded(resp) THEN None
    ELSE IF "results" \in DOMAIN resp.json /\ resp.json.results # <<>>
         THEN PyDict(resp.json.results[1])
         ELSE None

NotFoundMessage(c) == <<"Error: Could not find coordinates for ">> \o c

\* get_weather_data with the coordinates looked up defensively: a result
\* without them counts as not found.
GeocodeStage_defensive(c, resp) ==
    LET city_data == get_city_coordinates(resp)
    IN  IF ~Truthy(city_data)
             \/ ~({"latitude", "longitude"} \subseteq DOMAIN city_data.v)
        THEN [kind |-> "return", v |-> PyStr(NotFoundMessage(c))]
        ELSE [kind |-> "request", v |-> ForecastCall(city_data.v)]

\* get_weather_data from the geocoding answer up to the forecast request:
\* it returns the not-found message, raises, or issues the forecast request.
GeocodeStage(c, resp) ==
    LET city_data == get_city_coordinates(resp)
    IN  IF city_data.type = "raise" THEN [kind |-> "raise", v |-> city_data]
        ELSE IF ~Truthy(city_data)
             THEN [kind |-> "return", v |-> PyStr(NotFoundMessage(c))]
        ELSE IF ~({"latitude", "longitude"} \subseteq DOMAIN city_data.v)
             THEN [kind |-> "raise", v |-> Raise("KeyError")]
        ELSE [kind |-> "request", v |-> ForecastCall(city_data.v)]

\* The forecast request without its except clause.
ForecastStage_uncaught(resp) ==
    IF Succeeded(resp) THEN PyDict(resp.json) ELSE Raise("HTTPError")

\* The forecast answer cut down to its current part.
ForecastStage_current_only(resp) ==
    IF Succeeded(resp)
    THEN PyDict([current |-> resp.json.current])
    ELSE PyStr(<<"Error fetching weather data: ">> \o resp.message)

\* get_weather_data once the forecast request has been answered.
ForecastStage(resp) ==
    IF Succeeded(resp)
    THEN PyDict(resp.json)
    ELSE PyStr(<<"Error fetching weather data: ">> \o resp.message)

\* What get_weather_tool hands to its caller, given get_weather_data's value.
get_weather_tool(weather_data) == weather_data

-----------------------------------------------------------------------------
(* Query router *)

NONE == <<"NONE">>

\* The extractor's output taken as it comes.
extract_city_untrimmed(reply) == reply.content

\* extract_city's return value, given the model's response.
extract_city(reply) == strip(reply.content)

\* The sentinel compared in lower case.
IsNoneSentinel_lowercase(c) == c = <<"none">>

\* The sentinel never recognised.
IsNoneSentinel_never(c) == FALSE

\* city == 'NONE'
IsNoneSentinel(c) == c = NONE

ClarificationMessage ==
    <<"I need a specific city to provide weather information. Could you please specify which city you're asking about?">>

\* The error check left out.
IsErrorMessage_never(weather_data) == FALSE

\* isinstance(weather_data, str)
IsErrorMessage(weather_data) == IsStr(weather_data)

\* The answer trimmed as extract_city trims its own.
MessageContent_stripped(reply) == strip(reply.content)

\* What response['message']['content'] gives the caller.
MessageContent(reply) == reply.content

CurrentKeys == {"temperature_2m", "relative_humidity_2m", "weather_code", "wind_speed_10m"}
DailyKeys == {"temperature_2m_max", "temperature_2m_min", "weather_code",
              "precipitation_probability_max"}

\* The exception the formatting of the weather data raises, "" when none.
FormatFault(weather_data) ==
    IF weather_data.type # "dict" THEN "TypeError"
    ELSE LET d == weather_data.v
         IN  IF ~({"current", "daily"} \subseteq DOMAIN d) THEN "KeyError"
             ELSE IF ~(CurrentKeys \subseteq DOMAIN d.current) THEN "KeyError"
             ELSE IF ~(DailyKeys \subseteq DOMAIN d.daily) THEN "KeyError"
             ELSE IF \E k \in DailyKeys : d.daily[k] = <<>> THEN "IndexError"
             ELSE ""

\* An f-string's rendering of a value.
Fmt(x) == IF x.type = "str" THEN x.v ELSE <<"None">>

Indent == "                        "

weather_info(c, d) ==
    LET current == d.current
        daily == d.daily
    IN  <<"Current weather in ">> \o c \o
        <<":", "\n", Indent, "Temperature: ", ToString(current.temperature_2m), "deg", "C",
          "\n", Indent, "Humidity: ", ToString(current.relative_humidity_2m), "%",
          "\n", Indent, "Conditions: ">>
        \o Fmt(get_weather_description(current.weather_code)) \o
        <<"\n", Indent, "Wind Speed: ", ToString(current.wind_speed_10m), " km/h",
          "\n", "\n", Indent, "Forecast for tomorrow:",
          "\n", Indent, "High: ", ToString(daily.temperature_2m_max[1]), "deg", "C",
          "\n", Indent, "Low: ", ToString(daily.temperature_2m_min[1]), "deg", "C",
          "\n", Indent, "Conditions: ">>
        \o Fmt(get_weather_description(daily.weather_code[1])) \o
        <<"\n", Indent, "Chance of precipitation: ",
          ToString(daily.precipitation_probability_max[1]), "%">>

\* The prompt stamped with the number of queries started so far.
SynthMessages_stamped(c, q_text, d) ==
    << [role |-> "system", content |-> WeatherSystem],
       [role |-> "user", content |->
            <<"Based on the following real weather data for ">> \o c \o
            <<":", "\n", "                ">> \o weather_info(c, d) \o
            <<"\n", "\n", "                Please answer this question: ">> \o q_text \o
            <<ToString(Cardinality({q \in Queries : pc[q] # "idle"}))>>] >>

SynthMessages(c, q_text, d) ==
    << [role |-> "system", content |-> WeatherSystem],
       [role |-> "user", content |->
            <<"Based on the following real weather data for ">> \o c \o
            <<":", "\n", "                ">> \o weather_info(c, d) \o
            <<"\n", "\n", "                Please answer this question: ">> \o q_text \o
            <<"\n", "\n",
              "                Provide a natural, conversational response incorporating the actual weather data.">>] >>

\* process_query_tool making the synthesis call twice.
RouterResume_twice(c, q_text, weather_data) ==
    IF weather_data.type = "raise"
    THEN [pc |-> "fault", fault |-> weather_data.v, result |-> <<>>, call |-> <<>>]
    ELSE IF IsErrorMessage(weather_data)
    THEN [pc |-> "done", fault |-> "", result |-> <<weather_data>>, call |-> <<>>]
    ELSE IF FormatFault(weather_data) # ""
    THEN [pc |-> "fault", fault |-> FormatFault(weather_data), result |-> <<>>, call |-> <<>>]
    ELSE [pc |-> "llm_synth", fault |-> "", result |-> <<>>,
          call |-> <<ChatCall(SynthMessages(c, q_text, weather_data.v)),
                     ChatCall(SynthMessages(c, q_text, weather_data.v))>>]

\* process_query_tool from the return of get_weather_tool on: it returns
\* the error message, raises while formatting, or issues the synthesis call.
RouterResume(c, q_text, weather_data) ==
    IF weather_data.type = "raise"
    THEN [pc |-> "fault", fault |-> weather_data.v, result |-> <<>>, call |-> <<>>]
    ELSE IF IsErrorMessage(weather_data)
    THEN [pc |-> "done", fault |-> "", result |-> <<weather_data>>, call |-> <<>>]
    ELSE IF FormatFault(weather_data) # ""
    THEN [pc |-> "fault", fault |-> FormatFault(weather_data), result |-> <<>>, call |-> <<>>]
    ELSE [pc |-> "llm_synth", fault |-> "", result |-> <<>>,
          call |-> <<ChatCall(SynthMessages(c, q_text, weather_data.v))>>]

\* The get-weather tool called by the host: its value is the tool's result.
ToolResume(weather_data) ==
    IF weather_data.type = "raise"
    THEN [pc |-> "fault", fault |-> weather_data.v, result |-> <<>>, call |-> <<>>]
    ELSE [pc |-> "done", fault |-> "", result |-> <<weather_data>>, call |-> <<>>]

Resume(e, c, q_text, weather_data) ==
    IF e = "process-query"
    THEN RouterResume(c, q_text, get_weather_tool(weather_data))
    ELSE ToolResume(get_weather_tool(weather_data))

-----------------------------------------------------------------------------
(* State *)

routerVars == <<pc, entry, question, city, calls, replies, clients, weather, result, fault, loop>>
pureVars == <<fn, arg, ret>>
vars == <<pc, entry, question, city, calls, replies, clients, weather, result, fault, loop, fn, arg, ret>>

NoClients == [geo |-> "unopened", forecast |-> "unopened"]

RouterInit ==
    /\ pc = [q \in Queries |-> "idle"]
    /\ entry = [q \in Queries |-> ""]
    /\ question = [q \in Queries |-> <<>>]
    /\ city = [q \in Queries |-> <<>>]
    /\ calls = [q \in Queries |-> <<>>]
    /\ replies = [q \in Queries |-> <<>>]
    /\ clients = [q \in Queries |-> NoClients]
    /\ weather = [q \in Queries |-> <<>>]
    /\ result = [q \in Queries |-> <<>>]
    /\ fault = [q \in Queries |-> ""]
    /\ loop = 0

Init ==
    /\ RouterInit
    /\ fn = ""
    /\ arg = <<>>
    /\ ret = <<>>

-----------------------------------------------------------------------------
(* The coroutines.  A coroutine runs alone from one await of a network     *)
(* request to the next; ollama.chat is a blocking call, so the coroutine    *)
(* that makes it keeps the event loop until the call returns.               *)

\* ollama.chat with its exception swallowed.
ChatRaises_swallowed(reply) == FALSE

\* ollama.chat raised instead of returning a response; nothing in the
\* program catches it.
ChatRaises(reply) == ~reply.ok

\* Every call awaited, as if ollama.chat gave the event loop back.
LoopFree_always == TRUE

\* The event loop can run a coroutine: none is inside a blocking call.
LoopFree == loop = 0

\* A client left as it is when its scope is left.
aexit_leak(client) == client

\* The state of an httpx.AsyncClient when its `async with` block is left,
\* by return or by exception.
aexit(client) == "closed"

\* The host invokes process-query: classification, then the first
\* language-model call (the direct answer, or the city extraction).
ProcessQuery(q, q_text) ==
    /\ pc[q] = "idle"
    /\ LoopFree
    /\ entry' = [entry EXCEPT ![q] = "process-query"]
    /\ question' = [question EXCEPT ![q] = q_text]
    /\ IF ~needs_weather_data(q_text)
       THEN /\ calls' = [calls EXCEPT ![q] = Append(@, ChatCall(DirectMessages(q_text)))]
            /\ pc' = [pc EXCEPT ![q] = "llm_direct"]
       ELSE /\ calls' = [calls EXCEPT ![q] = Append(@, ChatCall(ExtractMessages(q_text)))]
            /\ pc' = [pc EXCEPT ![q] = "llm_extract"]
    /\ loop' = q
    /\ UNCHANGED <<city, replies, clients, weather, result, fault, pureVars>>

\* The direct-answer call returns or raises.
DirectReply(q, reply) ==
    /\ pc[q] = "llm_direct"
    /\ replies' = [replies EXCEPT ![q] = Append(@, reply)]
    /\ IF ~ChatRaises(reply)
       THEN /\ result' = [result EXCEPT ![q] = <<PyStr(MessageContent(reply))>>]
            /\ pc' = [pc EXCEPT ![q] = "done"]
            /\ fault' = fault
       ELSE /\ fault' = [fault EXCEPT ![q] = "ResponseError"]
            /\ pc' = [pc EXCEPT ![q] = "fault"]
            /\ result' = result
    /\ loop' = 0
    /\ UNCHANGED <<entry, question, city, calls, clients, weather, pureVars>>

\* The extraction call returns or raises; with a city, get_weather_tool
\* opens the geocoding client and awaits its request.
ExtractReply(q, reply) ==
    /\ pc[q] = "llm_extract"
    /\ replies' = [replies EXCEPT ![q] = Append(@, reply)]
    /\ IF ChatRaises(reply)
       THEN /\ fault' = [fault EXCEPT ![q] = "ResponseError"]
            /\ pc' = [pc EXCEPT ![q] = "fault"]
            /\ UNCHANGED <<city, result, calls, clients>>
       ELSE LET c == extract_city(reply)
            IN  /\ city' = [city EXCEPT ![q] = <<c>>]
                /\ fault' = fault
                /\ IF IsNoneSentinel(c)
                   THEN /\ result' = [result EXCEPT ![q] = <<PyStr(ClarificationMessage)>>]
                        /\ pc' = [pc EXCEPT ![q] = "done"]
                        /\ UNCHANGED <<calls, clients>>
                   ELSE /\ calls' = [calls EXCEPT ![q] = Append(@, GeocodeCall(c))]
                        /\ clients' = [clients EXCEPT ![q].geo = "open"]
                        /\ pc' = [pc EXCEPT ![q] = "await_geo"]
                        /\ result' = result
    /\ loop' = 0
    /\ UNCHANGED <<entry, question, weather, pureVars>>

\* The host invokes get-weather: the geocoding client is opened and its
\* request awaited.
GetWeather(q, c) ==
    /\ pc[q] = "idle"
    /\ LoopFree
    /\ entry' = [entry EXCEPT ![q] = "get-weather"]
    /\ city' = [city EXCEPT ![q] = <<c>>]
    /\ calls' = [calls EXCEPT ![q] = Append(@, GeocodeCall(c))]
    /\ clients' = [clients EXCEPT ![q].geo = "open"]
    /\ pc' = [pc EXCEPT ![q] = "await_geo"]
    /\ UNCHANGED <<question, replies, weather, result, fault, loop, pureVars>>

\* The geocoding request is answered: the client is closed, and
\* get_weather_data returns, raises or awaits the forecast request.
GeoReply(q, resp) ==
    /\ pc[q] = "await_geo"
    /\ LoopFree
    /\ replies' = [replies EXCEPT ![q] = Append(@, resp)]
    /\ LET stage == GeocodeStage(city[q][1], resp)
           next == Resume(entry[q], city[q][1], question[q], stage.v)
       IN  IF stage.kind = "request"
           THEN /\ calls' = [calls EXCEPT ![q] = Append(@, stage.v)]
                /\ clients' = [clients EXCEPT ![q] = [geo |-> aexit(@.geo), forecast |-> "open"]]
                /\ pc' = [pc EXCEPT ![q] = "await_forecast"]
                /\ UNCHANGED <<weather, result, fault, loop>>
           ELSE /\ clients' = [clients EXCEPT ![q].geo = aexit(@)]
                /\ weather' = [weather EXCEPT ![q] =
                                   IF stage.kind = "return" THEN <<stage.v>> ELSE @]
                /\ calls' = [calls EXCEPT ![q] = @ \o next.call]
                /\ pc' = [pc EXCEPT ![q] = next.pc]
                /\ result' = [result EXCEPT ![q] = next.result]
                /\ fault' = [fault EXCEPT ![q] = next.fault]
                /\ loop' = IF next.pc = "llm_synth" THEN q ELSE 0
    /\ UNCHANGED <<entry, question, city, pureVars>>

\* The forecast request is answered: the client is closed and
\* get_weather_data returns; the router returns the error message, raises
\* on the data's shape, or makes the synthesis call.
ForecastReply(q, resp) ==
    /\ pc[q] = "await_forecast"
    /\ LoopFree
    /\ replies' = [replies EXCEPT ![q] = Append(@, resp)]
    /\ clients' = [clients EXCEPT ![q].forecast = aexit(@)]
    /\ LET weather_data == ForecastStage(resp)
           next == Resume(entry[q], city[q][1], question[q], weather_data)
       IN  /\ weather' = [weather EXCEPT ![q] =
                              IF weather_data.type = "raise" THEN @ ELSE <<weather_data>>]
           /\ calls' = [calls EXCEPT ![q] = @ \o next.call]
           /\ pc' = [pc EXCEPT ![q] = next.pc]
           /\ result' = [result EXCEPT ![q] = next.result]
           /\ fault' = [fault EXCEPT ![q] = next.fault]
           /\ loop' = IF next.pc = "llm_synth" THEN q ELSE 0
    /\ UNCHANGED <<entry, question, city, pureVars>>

\* The synthesis call returns or raises.
SynthReply(q, reply) ==
    /\ pc[q] = "llm_synth"
    /\ replies' = [replies EXCEPT ![q] = Append(@, reply)]
    /\ IF ~ChatRaises(reply)
       THEN /\ result' = [result EXCEPT ![q] = <<PyStr(MessageContent(reply))>>]
            /\ pc' = [pc EXCEPT ![q] = "done"]
            /\ fault' = fault
       ELSE /\ fault' = [fault EXCEPT ![q] = "ResponseError"]
            /\ pc' = [pc EXCEPT ![q] = "fault"]
            /\ result' = result
    /\ loop' = 0
    /\ UNCHANGED <<entry, question, city, calls, clients, weather, pureVars>>

Next ==
    \/ \E q \in Queries, q_text \in RouterQuestions : ProcessQuery(q, q_text)
    \/ \E q \in Queries, reply \in AnswerReplies : DirectReply(q, reply)
    \/ \E q \in Queries, reply \in ExtractReplies : ExtractReply(q, reply)
    \/ \E q \in Queries, c \in ToolCities : GetWeather(q, c)
    \/ \E q \in Queries, resp \in GeoReplies : GeoReply(q, resp)
    \/ \E q \in Queries, resp \in ForecastReplies : ForecastReply(q, resp)
    \/ \E q \in Queries, reply \in AnswerReplies : SynthReply(q, reply)

Spec == Init /\ [][Next]_vars

\* The weather path of process-query alone, the extractor's output drawn
\* from the wide set.
NextExtract ==
    \/ \E q \in Queries, q_text \in WeatherQuestions : ProcessQuery(q, q_text)
    \/ \E q \in Queries, reply \in WideExtractReplies : ExtractReply(q, reply)
    \/ \E q \in Queries, resp \in FewGeoReplies : GeoReply(q, resp)
    \/ \E q \in Queries, resp \in FewForecastReplies : ForecastReply(q, resp)
    \/ \E q \in Queries, reply \in FewAnswerReplies : SynthReply(q, reply)

SpecExtract == Init /\ [][NextExtract]_vars

-----------------------------------------------------------------------------
(* The pure functions on their own: the argument is drawn by Init, the     *)
(* single action applies the function.                                      *)

Alphabet == {"h", "o", "t", "H", "T", "f", "g", "deg", "C", "c", "F"}
Questions == UNION { [1..n -> Alphabet] : n \in 0..MaxLen }
Codes == (0 - CodeSlack)..(99 + CodeSlack)

InitClassify ==
    /\ RouterInit
    /\ fn = "needs_weather_data"
    /\ arg \in Questions
    /\ ret = <<>>

CallNeedsWeatherData ==
    /\ fn = "needs_weather_data"
    /\ ret = <<>>
    /\ ret' = <<needs_weather_data(arg)>>
    /\ UNCHANGED <<routerVars, fn, arg>>

SpecClassify == InitClassify /\ [][CallNeedsWeatherData]_vars

InitDescribe ==
    /\ RouterInit
    /\ fn = "get_weather_description"
    /\ arg \in Codes
    /\ ret = <<>>

CallGetWeatherDescription ==
    /\ fn = "get_weather_description"
    /\ ret = <<>>
    /\ ret' = <<get_weather_description(arg)>>
    /\ UNCHANGED <<routerVars, fn, arg>>

SpecDescribe == InitDescribe /\ [][CallGetWeatherDescription]_vars

-----------------------------------------------------------------------------
(* Reading the history of a query *)

\* The positions of q's requests to service svc.
CallsTo(q, svc) == { i \in DOMAIN calls[q] : calls[q][i].svc = svc }

\* The answers q has received from service svc.
RepliesFrom(q, svc) == { replies[q][i] : i \in CallsTo(q, svc) \cap DOMAIN replies[q] }

\* A geocoding answer that is a failure of the lookup: the request raised,
\* the status was an error, or the body holds no result.
GeoLookupFailed(r) ==
    \/ r.kind # "ok"
    \/ "results" \notin DOMAIN r.json
    \/ r.json.results = <<>>

\* A geocoding answer that gives coordinates.
GeoHasCoordinates(r) ==
    /\ ~GeoLookupFailed(r)
    /\ {"latitude", "longitude"} \subseteq DOMAIN r.json.results[1]

\* A complete snapshot: the current part and the daily part with their
\* fields, the daily fields holding at least one day.
CompleteSnapshot(d) ==
    /\ {"current", "daily"} \subseteq DOMAIN d
    /\ CurrentKeys \subseteq DOMAIN d.current
    /\ DailyKeys \subseteq DOMAIN d.daily
    /\ \A k \in DailyKeys : d.daily[k] # <<>>

-----------------------------------------------------------------------------
(* Claims *)

\* C1: needs_weather_data returns true exactly for the questions that
\* contain some keyword of WEATHER_KEYWORDS in any letter case, the
\* degree-sign keywords included.
C1_KeywordAnyCaseIffWeather ==
    (fn = "needs_weather_data" /\ ret # <<>>) =>
        (ret[1] <=> \E kw \in WEATHER_KEYWORDS : Contains(lower(arg), lower(kw)))

\* C2: a question the classifier rejects gets exactly one request, the
\* language-model call with the generic-assistant system message and the
\* raw question as user content, and the tool returns that call's text
\* unmodified.
C2_DirectAnswerSingleCall ==
    \A q \in Queries :
        (entry[q] = "process-query" /\ ~needs_weather_data(question[q])) =>
            /\ Len(calls[q]) = 1
            /\ calls[q][1].svc = "llm"
            /\ calls[q][1].messages =
                   << [role |-> "system", content |-> GenericSystem],
                      [role |-> "user", content |-> question[q]] >>
            /\ pc[q] \in {"llm_direct", "done", "fault"}
            /\ pc[q] = "done" => result[q] = <<PyStr(replies[q][1].content)>>

C2_Witness ==
    \E q \in Queries :
        /\ entry[q] = "process-query"
        /\ ~needs_weather_data(question[q])
        /\ pc[q] = "done"
        /\ result[q] = <<PyStr(<<" ", "It is Paris.", "\n">>)>>

\* C3: when the city extractor returns "NONE" for a weather question, the
\* tool returns the fixed clarification string and the extraction call is
\* the query's only request.
C3_NoneGivesClarification ==
    \A q \in Queries :
        (entry[q] = "process-query" /\ needs_weather_data(question[q])
            /\ city[q] = << <<"NONE">> >>) =>
            /\ pc[q] = "done"
            /\ result[q] = <<PyStr(ClarificationMessage)>>
            /\ Len(calls[q]) = 1
            /\ calls[q][1].svc = "llm"
            /\ calls[q][1].messages[1].content = ExtractorSystem

C3_Witness ==
    \E q \in Queries :
        /\ entry[q] = "process-query"
        /\ needs_weather_data(question[q])
        /\ replies[q] = << [ok |-> TRUE, content |-> <<" ", "NONE", "\n">>] >>
        /\ city[q] = << <<"NONE">> >>
        /\ pc[q] = "done"

\* C4: when get_weather_data returns a failure message (city not found, or
\* the forecast request failed), process_query_tool returns exactly that
\* message and the extraction call stays the query's only language-model
\* call.
C4_FailureMessageReturned ==
    \A q \in Queries :
        (entry[q] = "process-query" /\ weather[q] # <<>> /\ weather[q][1].type = "str") =>
            /\ pc[q] = "done"
            /\ result[q] = weather[q]
            /\ Cardinality(CallsTo(q, "llm")) = 1

C4_Witness ==
    \E q \in Queries :
        /\ entry[q] = "process-query"
        /\ pc[q] = "done"
        /\ \E r \in RepliesFrom(q, "forecast") : r.kind = "http_error"
        /\ result[q] = <<PyStr(<<"Error fetching weather data: ",
                                 "Server error '500 Internal Server Error'">>)>>

\* C5: when the geocoding lookup fails (transport or HTTP error, or no
\* result), get_weather_data returns "Error: Could not find coordinates for
\* {city}", nothing is raised, and no forecast request is issued.
C5_GeocodingFailureIsNotFound ==
    \A q \in Queries :
        \A r \in RepliesFrom(q, "geocode") :
            GeoLookupFailed(r) =>
                /\ weather[q] =
                       <<PyStr(<<"Error: Could not find coordinates for ">> \o city[q][1])>>
                /\ fault[q] = ""
                /\ pc[q] = "done"
                /\ CallsTo(q, "forecast") = {}

C5_Witness ==
    \E q \in Queries :
        /\ entry[q] = "get-weather"
        /\ city[q] = << <<"Atlantis">> >>
        /\ RepliesFrom(q, "geocode") = {[kind |-> "ok", json |-> [results |-> <<>>]]}
        /\ weather[q] = <<PyStr(<<"Error: Could not find coordinates for ", "Atlantis">>)>>

\* C6: after a successful geocoding lookup, a transport or HTTP failure of
\* the forecast request is returned by get_weather_data as a request-failed
\* message string and is not raised to its caller.
C6_ForecastFailureIsMessage ==
    \A q \in Queries :
        \A r \in RepliesFrom(q, "forecast") :
            ~Succeeded(r) =>
                /\ weather[q] = <<PyStr(<<"Error fetching weather data: ">> \o r.message)>>
                /\ fault[q] = ""
                /\ pc[q] = "done"

C6_Witness ==
    \E q \in Queries :
        /\ \E r \in RepliesFrom(q, "geocode") : GeoHasCoordinates(r)
        /\ \E r \in RepliesFrom(q, "forecast") : r.kind = "transport_error"
        /\ weather[q] # <<>>
        /\ weather[q][1].type = "str"

\* C7: a value get_weather_data returns as a weather snapshot was produced
\* from a successful geocoding result and a successful forecast fetch and
\* is a complete snapshot.
C7_OnlyCompleteSnapshots ==
    \A q \in Queries :
        (weather[q] # <<>> /\ weather[q][1].type = "dict") =>
            /\ \E r \in RepliesFrom(q, "geocode") : GeoHasCoordinates(r)
            /\ \E r \in RepliesFrom(q, "forecast") : Succeeded(r)
            /\ CompleteSnapshot(weather[q][1].v)

\* C8: when geocoding gives coordinates and the forecast request succeeds,
\* get_weather_data returns exactly the snapshot of the forecast answer.
C8_SnapshotPassThrough ==
    \A q \in Queries :
        \A r \in RepliesFrom(q, "forecast") :
            Succeeded(r) => weather[q] = <<PyDict(r.json)>>

C8_Witness ==
    \E q \in Queries :
        /\ \E r \in RepliesFrom(q, "geocode") : GeoHasCoordinates(r)
        /\ [kind |-> "ok", json |-> SnapshotA] \in RepliesFrom(q, "forecast")
        /\ weather[q] = <<PyDict(SnapshotA)>>

\* C9: get_weather_description never fails: it returns the fixed label for
\* every key of the table (61 gives "Slight rain") and "Unknown" for every
\* other code, those of [0, 99] that are no key included.
C9_DescriptionTotal ==
    (fn = "get_weather_description" /\ ret # <<>>) =>
        /\ ret[1].type = "str"
        /\ arg = 61 => ret[1].v = <<"Slight rain">>
        /\ arg \in DOMAIN weather_codes => ret[1].v = <<weather_codes[arg]>>
        /\ arg \notin DOMAIN weather_codes => ret[1].v = <<"Unknown">>

C9_Witness ==
    /\ fn = "get_weather_description"
    /\ arg = 50
    /\ ret = <<PyStr(<<"Unknown">>)>>

\* C10: the get-weather tool returns a dict on the success path and on
\* both failure paths.
C10_ToolReturnsDict ==
    \A q \in Queries :
        (entry[q] = "get-weather" /\ result[q] # <<>>) => result[q][1].type = "dict"

-----------------------------------------------------------------------------
(* Reading the history of a query, continued *)

\* The positions of q's synthesis calls.
SynthCalls(q) ==
    { i \in CallsTo(q, "llm") : calls[q][i].messages[1].content = WeatherSystem }

\* This step leaves everything query p owns as it is.
Untouched(p) ==
    /\ pc'[p] = pc[p]
    /\ entry'[p] = entry[p]
    /\ question'[p] = question[p]
    /\ city'[p] = city[p]
    /\ calls'[p] = calls[p]
    /\ replies'[p] = replies[p]
    /\ clients'[p] = clients[p]
    /\ weather'[p] = weather[p]
    /\ result'[p] = result[p]
    /\ fault'[p] = fault[p]

\* The query was aborted by a fault before any synthesis call.
Aborted(q) ==
    /\ pc[q] = "fault"
    /\ result[q] = <<>>
    /\ SynthCalls(q) = {}

\* A geocoding answer whose first result lacks a coordinate.
GeoFirstResultLacksCoordinates(r) ==
    /\ Succeeded(r)
    /\ "results" \in DOMAIN r.json
    /\ r.json.results # <<>>
    /\ ~({"latitude", "longitude"} \subseteq DOMAIN r.json.results[1])

\* A forecast answer that went through and is no complete snapshot.
ForecastShapeMalformed(r) == Succeeded(r) /\ ~CompleteSnapshot(r.json)

\* C11 as stated: a malformed response shape from either service is never
\* converted into a failure message; it aborts the query with a fault
\* before the synthesis call.
C11_MalformedShapeIsFault ==
    \A q \in Queries :
        entry[q] = "process-query" =>
            /\ \A r \in RepliesFrom(q, "geocode") :
                   GeoFirstResultLacksCoordinates(r) => Aborted(q)
            /\ \A r \in RepliesFrom(q, "forecast") :
                   ForecastShapeMalformed(r) => Aborted(q)

\* C11 as amended: a forecast body lacking a part of the snapshot, and a
\* geocoding first result that is a non-empty object lacking a coordinate,
\* abort the query with a KeyError or IndexError before the synthesis call
\* and no failure message is made of them; a geocoding first result that is
\* the empty object, or a body without results, is taken as city not found;
\* the step that aborts a query changes nothing of any other query and
\* leaves the event loop free for them.
C11_MalformedShapeAmended ==
    /\ [](\A q \in Queries :
            /\ \A r \in RepliesFrom(q, "geocode") :
                   /\ (GeoFirstResultLacksCoordinates(r) /\ DOMAIN r.json.results[1] # {}) =>
                          (Aborted(q) /\ fault[q] = "KeyError" /\ weather[q] = <<>>)
                   /\ (Succeeded(r) /\ ~GeoHasCoordinates(r)
                            /\ ~(GeoFirstResultLacksCoordinates(r) /\ DOMAIN r.json.results[1] # {})) =>
                          (pc[q] = "done" /\ weather[q] = <<PyStr(NotFoundMessage(city[q][1]))>>)
            /\ entry[q] = "process-query" =>
                   \A r \in RepliesFrom(q, "forecast") :
                       ForecastShapeMalformed(r) =>
                           (Aborted(q) /\ fault[q] \in {"KeyError", "IndexError"}))
    /\ [][\A q \in Queries :
             (pc[q] # "fault" /\ pc'[q] = "fault") =>
                 (loop' = 0 /\ \A p \in Queries \ {q} : Untouched(p))]_vars

C11_Witness ==
    \E q \in Queries, p \in Queries :
        /\ entry[q] = "process-query"
        /\ \E r \in RepliesFrom(q, "forecast") : ForecastShapeMalformed(r)
        /\ pc[q] = "fault"
        /\ fault[q] = "KeyError"
        /\ p # q
        /\ pc[p] = "await_forecast"

\* C12: a language-model call that fails (direct answer, city extraction
\* or synthesis) leaves process_query_tool as a fault: the failed call is
\* the query's last request (no retry, no later call) and no result is
\* returned.
C12_ChatFailurePropagates ==
    \A q \in Queries :
        \A i \in CallsTo(q, "llm") \cap DOMAIN replies[q] :
            ~replies[q][i].ok =>
                /\ pc[q] = "fault"
                /\ fault[q] = "ResponseError"
                /\ result[q] = <<>>
                /\ Len(calls[q]) = i

C12_Witness ==
    \E q \in Queries :
        /\ SynthCalls(q) # {}
        /\ pc[q] = "fault"
        /\ Len(replies[q]) = Len(calls[q])
        /\ ~replies[q][Len(replies[q])].ok

C14_StepOrder ==
    \A q \in Queries :
        \A i \in DOMAIN calls[q] :
            /\ (entry[q] = "process-query" /\ i = 1) =>
                   /\ calls[q][1].svc = "llm"
                   /\ calls[q][1].messages[1].content =
                          IF needs_weather_data(question[q])
                          THEN ExtractorSystem ELSE GenericSystem
            /\ (entry[q] = "process-query" /\ calls[q][i].svc = "geocode") =>
                   /\ i = 2
                   /\ calls[q][1].messages[1].content = ExtractorSystem
                   /\ replies[q][1].ok
                   /\ strip(replies[q][1].content) # <<"NONE">>
                   /\ calls[q][i].params.name = strip(replies[q][1].content)
            /\ calls[q][i].svc = "forecast" =>
                   /\ i > 1
                   /\ calls[q][i - 1].svc = "geocode"
                   /\ Len(replies[q]) >= i - 1
                   /\ GeoHasCoordinates(replies[q][i - 1])
            /\ i \in SynthCalls(q) =>
                   /\ i > 1
                   /\ calls[q][i - 1].svc = "forecast"
                   /\ Len(replies[q]) >= i - 1
                   /\ Succeeded(replies[q][i - 1])

C14_Witness ==
    \E q \in Queries, p \in Queries :
        /\ p # q
        /\ Len(calls[q]) = 4
        /\ SynthCalls(q) = {4}
        /\ pc[p] = "await_geo"
        /\ entry[p] = "process-query"

\* C15: a query issues at most one geocoding request, at most one forecast
\* request and at most two language-model calls, whatever the services
\* answer; one that reached the synthesis call has issued exactly one, one
\* and two.
C15_NoRetry ==
    \A q \in Queries :
        /\ Cardinality(CallsTo(q, "geocode")) <= 1
        /\ Cardinality(CallsTo(q, "forecast")) <= 1
        /\ Cardinality(CallsTo(q, "llm")) <= 2
        /\ SynthCalls(q) # {} =>
               /\ Cardinality(CallsTo(q, "geocode")) = 1
               /\ Cardinality(CallsTo(q, "forecast")) = 1
               /\ Cardinality(CallsTo(q, "llm")) = 2

C15_Witness ==
    \E q \in Queries :
        /\ SynthCalls(q) # {}
        /\ pc[q] = "done"
        /\ Cardinality(CallsTo(q, "llm")) = 2

\* C16: a query's HTTP client is open only while the function that opened
\* it awaits its request: the geocoding client is closed when
\* get_city_coordinates has returned, the forecast client when
\* get_weather_data has returned or raised; the two are never open
\* together, and a terminated query holds no open client.
C16_ClientsClosed ==
    \A q \in Queries :
        /\ clients[q].geo = "open" <=> pc[q] = "await_geo"
        /\ clients[q].forecast = "open" <=> pc[q] = "await_forecast"
        /\ ~(clients[q].geo = "open" /\ clients[q].forecast = "open")
        /\ clients[q].forecast # "unopened" => clients[q].geo = "closed"
        /\ pc[q] \in {"done", "fault"} =>
               /\ clients[q].geo \in {"unopened", "closed"}
               /\ clients[q].forecast \in {"unopened", "closed"}
               /\ CallsTo(q, "geocode") # {} => clients[q].geo = "closed"
               /\ CallsTo(q, "forecast") # {} => clients[q].forecast = "closed"

C16_Witness ==
    \E q \in Queries :
        /\ pc[q] = "fault"
        /\ fault[q] = "KeyError"
        /\ clients[q] = [geo |-> "closed", forecast |-> "closed"]

\* What a query is given: the tool invoked, its argument, and the answers
\* of the external services so far.
SameInputs(q1, q2) ==
    /\ entry[q1] = entry[q2]
    /\ question[q1] = question[q2]
    /\ entry[q1] = "get-weather" => city[q1] = city[q2]
    /\ replies[q1] = replies[q2]

\* C17: queries share no mutable state: a step changes the state of one
\* query only, and, under every interleaving, the requests a query has
\* issued and its outcome are determined by its own inputs and the answers it
\* received (two queries given the same have done the same).
C17_NoSharedState ==
    /\ [](\A q1 \in Queries, q2 \in Queries :
            SameInputs(q1, q2) =>
                /\ calls[q1] = calls[q2]
                /\ pc[q1] = pc[q2]
                /\ city[q1] = city[q2]
                /\ weather[q1] = weather[q2]
                /\ result[q1] = result[q2]
                /\ fault[q1] = fault[q2]
                /\ clients[q1] = clients[q2])
    /\ [][\E p \in Queries : \A q \in Queries \ {p} : Untouched(q)]_vars

C17_Witness ==
    \E q1 \in Queries, q2 \in Queries :
        /\ q1 # q2
        /\ entry[q1] = "process-query"
        /\ SameInputs(q1, q2)
        /\ Len(replies[q1]) = 4
        /\ pc[q1] = "done"

BlockingStates == {"llm_direct", "llm_extract", "llm_synth"}
AwaitingStates == {"await_geo", "await_forecast"}

\* C19: while a query is inside a language-model call no other query takes
\* a step; a step of another query happens during a started, unfinished
\* query only while that query awaits its geocoding or forecast request.
C19_InterleaveOnlyAtAwait ==
    [][\A q \in Queries, p \in Queries :
          (p # q /\ ~Untouched(p)) =>
              /\ pc[q] \notin BlockingStates
              /\ pc[q] \notin {"idle", "done", "fault"} => pc[q] \in AwaitingStates]_vars

C19_Witness ==
    \E q \in Queries, p \in Queries :
        /\ p # q
        /\ pc[q] = "llm_synth"
        /\ loop = q
        /\ pc[p] = "await_forecast"

\* The extractor's output of a weather query whose extraction call returned.
ExtractorOutput(q) == replies[q][1].content

Extracted(q) ==
    /\ entry[q] = "process-query"
    /\ needs_weather_data(question[q])
    /\ Len(replies[q]) >= 1
    /\ replies[q][1].ok

\* Outputs that are not the sentinel, written as they read once trimmed.
NotTheSentinel == {
    <<"none">>,
    <<"NONE", ".">>,
    <<"'", "NONE", "'">>,
    <<"The city is ", "Paris", ".">>,
    <<>> }

\* C18: the extractor's output is validated only by comparing it, trimmed
\* of surrounding whitespace, with "NONE": equal, the query ends with the
\* clarification message and no geocoding request; otherwise the trimmed
\* output, whatever it is ("none", "NONE.", 'NONE' in quotes, a sentence,
\* the empty string), is the city of exactly one geocoding request.
C18_OnlySentinelValidated ==
    \A q \in Queries :
        Extracted(q) =>
            LET out == ExtractorOutput(q)
                trimmed == strip(out)
            IN  /\ trimmed = <<"NONE">> =>
                       /\ pc[q] = "done"
                       /\ result[q] = <<PyStr(ClarificationMessage)>>
                       /\ CallsTo(q, "geocode") = {}
                       /\ Len(calls[q]) = 1
                /\ trimmed # <<"NONE">> =>
                       /\ CallsTo(q, "geocode") = {2}
                       /\ calls[q][2].params.name = trimmed
                       /\ result[q] # <<PyStr(ClarificationMessage)>>
                /\ out \in NotTheSentinel =>
                       /\ CallsTo(q, "geocode") = {2}
                       /\ calls[q][2].params.name = out
                /\ out \in {<<" ", "NONE", "\n">>, <<"\t", "NONE", " ", " ">>} =>
                       result[q] = <<PyStr(ClarificationMessage)>>

C18_Witness ==
    \E q1 \in Queries, q2 \in Queries :
        /\ Extracted(q1)
        /\ ExtractorOutput(q1) = <<"\t", "NONE", " ", " ">>
        /\ pc[q1] = "done"
        /\ Extracted(q2)
        /\ ExtractorOutput(q2) = <<>>
        /\ pc[q2] = "done"
        /\ Len(calls[q2]) = 2

====
